---- MODULE Spec2Model ----
(***************************************************************************)
(* Model of generate_calendar.py: the pagination walker, the card          *)
(* extraction, the date recogniser/parser, the description assembly and    *)
(* the calendar build.  Text is modelled as sequences of one-character     *)
(* strings so that strip/lower/startswith/split/join and the two regular   *)
(* expressions are computed, not assumed.                                  *)
(***************************************************************************)
EXTENDS Integers, Sequences, FiniteSets, TLC

----------------------------------------------------------------------------
(* Text primitives (Python str methods used by the script)                 *)

Upper == <<"A", "B", "C", "D", "E", "F", "G", "H", "I", "J", "K", "L", "M", "N", "O", "P", "Q", "R", "S", "T", "U", "V", "W", "X", "Y", "Z">>

Lower == <<"a", "b", "c", "d", "e", "f", "g", "h", "i", "j", "k", "l", "m", "n", "o", "p", "q", "r", "s", "t", "u", "v", "w", "x", "y", "z">>

Digits == <<"0", "1", "2", "3", "4", "5", "6", "7", "8", "9">>

Range(f) == {f[i] : i \in DOMAIN f}

\* [A-Za-z]
AlphaClass == Range(Upper) \cup Range(Lower)

\* \d
DigitClass == Range(Digits)

\* \s, and the characters str.strip() removes
SpaceClass == {" ", "\t", "\n"}

DigitVal(c) == (CHOOSE i \in DOMAIN Digits : Digits[i] = c) - 1

\* int() of a run of decimal digits
RECURSIVE IntOf(_)
IntOf(s) == IF s = <<>> THEN 0 ELSE 10 * IntOf(SubSeq(s, 1, Len(s) - 1)) + DigitVal(s[Len(s)])

LowerChar(c) == IF c \in Range(Upper) THEN Lower[CHOOSE i \in DOMAIN Upper : Upper[i] = c] ELSE c

\* str.lower()
lower(s) == [i \in DOMAIN s |-> LowerChar(s[i])]

\* first index >= p of s that is not whitespace (Len(s) + 1 when none)
RECURSIVE SkipLeft(_, _)
SkipLeft(s, p) == IF p > Len(s) \/ s[p] \notin SpaceClass THEN p ELSE SkipLeft(s, p + 1)

\* last index <= q of s that is not whitespace (0 when none)
RECURSIVE SkipRight(_, _)
SkipRight(s, q) == IF q < 1 \/ s[q] \notin SpaceClass THEN q ELSE SkipRight(s, q - 1)

\* str.strip()
strip(s) == SubSeq(s, SkipLeft(s, 1), SkipRight(s, Len(s)))

\* str.startswith(prefix)
startswith(s, prefix) == Len(s) >= Len(prefix) /\ SubSeq(s, 1, Len(prefix)) = prefix

\* sep.join(parts)
RECURSIVE join(_, _)
join(sep, parts) ==
    IF parts = <<>> THEN <<>>
    ELSE IF Len(parts) = 1 THEN parts[1]
    ELSE parts[1] \o sep \o join(sep, Tail(parts))

\* index of the first occurrence of character c in s, 0 when there is none
FindChar(s, c) ==
    IF \E i \in DOMAIN s : s[i] = c
    THEN CHOOSE i \in DOMAIN s : s[i] = c /\ \A j \in 1..(i - 1) : s[j] # c
    ELSE 0

\* re.search of a literal, case-folded pattern in s
ContainsFolded(s, pat) ==
    \E folded \in {lower(s)} :
        \E i \in 1..(Len(s) - Len(pat) + 1) : SubSeq(folded, i, i + Len(pat) - 1) = pat

\* first position q >= p such that s[p..q-1] lies in class and s[q] does not
\* (the greedy extent of  class*  started at p)
RECURSIVE Span(_, _, _)
Span(s, p, class) == IF p > Len(s) \/ s[p] \notin class THEN p ELSE Span(s, p + 1, class)

\* whether s has the literal character c at position p
At(s, p, c) == p <= Len(s) /\ s[p] = c

NL == <<"\n">>

----------------------------------------------------------------------------
(* Date recogniser and parser                                              *)

TZ == "America/New_York"

Meridiems == {<<"A", "M">>, <<"P", "M">>, <<"a", "m">>, <<"p", "m">>}

\* DATE_LINE_RE.match(t):
\*   ^[A-Za-z]+,\s+[A-Za-z]+\s+\d{1,2},\s+\d{4}\.\s+\d{1,2}:\d{2}\s*(AM|PM|am|pm)$
\* Adjacent pieces of the pattern use disjoint character classes, so the
\* greedy extents p1..p11 are the only way the pattern can match.
DATE_LINE_RE(t) ==
    LET p1  == Span(t, 1, AlphaClass)
        p2  == Span(t, p1 + 1, SpaceClass)
        p3  == Span(t, p2, AlphaClass)
        p4  == Span(t, p3, SpaceClass)
        p5  == Span(t, p4, DigitClass)
        p6  == Span(t, p5 + 1, SpaceClass)
        p7  == Span(t, p6, DigitClass)
        p8  == Span(t, p7 + 1, SpaceClass)
        p9  == Span(t, p8, DigitClass)
        p10 == Span(t, p9 + 1, DigitClass)
        p11 == Span(t, p10, SpaceClass)
        rest == SubSeq(t, p11, Len(t))
    IN  /\ p1 > 1 /\ At(t, p1, ",")
        /\ p2 > p1 + 1
        /\ p3 > p2
        /\ p4 > p3
        /\ p5 - p4 \in {1, 2} /\ At(t, p5, ",")
        /\ p6 > p5 + 1
        /\ p7 - p6 = 4 /\ At(t, p7, ".")
        /\ p8 > p7 + 1
        /\ p9 - p8 \in {1, 2} /\ At(t, p9, ":")
        /\ p10 - (p9 + 1) = 2
        /\ \/ rest \in Meridiems
           \/ \E m \in Meridiems : rest = m \o NL

MonthNames == <<
    <<"j", "a", "n", "u", "a", "r", "y">>,
    <<"f", "e", "b", "r", "u", "a", "r", "y">>,
    <<"m", "a", "r", "c", "h">>,
    <<"a", "p", "r", "i", "l">>,
    <<"m", "a", "y">>,
    <<"j", "u", "n", "e">>,
    <<"j", "u", "l", "y">>,
    <<"a", "u", "g", "u", "s", "t">>,
    <<"s", "e", "p", "t", "e", "m", "b", "e", "r">>,
    <<"o", "c", "t", "o", "b", "e", "r">>,
    <<"n", "o", "v", "e", "m", "b", "e", "r">>,
    <<"d", "e", "c", "e", "m", "b", "e", "r">> >>

IsLeap(y) == (y % 4 = 0 /\ y % 100 # 0) \/ y % 400 = 0

DaysIn(y, m) ==
    IF m = 2 THEN (IF IsLeap(y) THEN 29 ELSE 28)
    ELSE IF m \in {4, 6, 9, 11} THEN 30 ELSE 31

\* the exception a failed parse raises (ValueError / IndexError)
ParseError == [error |-> "ValueError"]

\* variant: 12 is not treated specially
Hour24_no_twelve(I, pm) == IF pm THEN I + 12 ELSE I

\* %I with %p: the 24-hour value of a 12-hour clock reading
Hour24(I, pm) ==
    IF pm THEN (IF I = 12 THEN 12 ELSE I + 12)
    ELSE (IF I = 12 THEN 0 ELSE I)

\* datetime.strptime(s, "%B %d, %Y %I:%M %p").  The format compiles to
\*   (month name)\s+(3[01]|[12]\d|0[1-9]|[1-9]),\s+(\d\d\d\d)\s+
\*   (1[0-2]|0[1-9]|[1-9]):([0-5]\d|\d)\s+(am|pm)      case-insensitively,
\* the whole of s must be consumed, and datetime() then validates the date.
strptime(s) ==
    LET p1 == Span(s, 1, AlphaClass)
        p2 == Span(s, p1, SpaceClass)
        p3 == Span(s, p2, DigitClass)
        p4 == Span(s, p3 + 1, SpaceClass)
        p5 == Span(s, p4, DigitClass)
        p6 == Span(s, p5, SpaceClass)
        p7 == Span(s, p6, DigitClass)
        p8 == Span(s, p7 + 1, DigitClass)
        p9 == Span(s, p8, SpaceClass)
        B  == lower(SubSeq(s, 1, p1 - 1))
        d  == IntOf(SubSeq(s, p2, p3 - 1))
        Y  == IntOf(SubSeq(s, p4, p5 - 1))
        I  == IntOf(SubSeq(s, p6, p7 - 1))
        M  == IntOf(SubSeq(s, p7 + 1, p8 - 1))
        p  == lower(SubSeq(s, p9, Len(s)))
        month == CHOOSE i \in DOMAIN MonthNames : MonthNames[i] = B
        ok ==
            /\ \E i \in DOMAIN MonthNames : MonthNames[i] = B
            /\ p2 > p1
            /\ p3 - p2 \in {1, 2} /\ At(s, p3, ",")
            /\ d \in 1..31
            /\ p4 > p3 + 1
            /\ p5 - p4 = 4
            /\ p6 > p5
            /\ p7 - p6 \in {1, 2} /\ At(s, p7, ":")
            /\ I \in 1..12
            /\ p8 - (p7 + 1) \in {1, 2}
            /\ M \in 0..59
            /\ p9 > p8
            /\ p \in {<<"a", "m">>, <<"p", "m">>}
            /\ Y >= 1
            /\ d <= DaysIn(Y, month)
    IN  IF ok
        THEN [year |-> Y, month |-> month, day |-> d,
              hour |-> Hour24(I, p = <<"p", "m">>),
              minute |-> M, tzinfo |-> "naive"]
        ELSE ParseError

\* TZ.localize(naive): the wall-clock fields are kept, the zone is attached
localize(naive) == [naive EXCEPT !.tzinfo = TZ]

\* parse_begin(dt_line); a raised exception is the value ParseError
parse_begin(dt_line) ==
    LET dot      == FindChar(dt_line, ".")
        left     == SubSeq(dt_line, 1, dot - 1)
        timepart == SubSeq(dt_line, dot + 1, Len(dt_line))
        comma    == FindChar(left, ",")
        date_str == strip(SubSeq(left, comma + 1, Len(left)))
        time_str == strip(timepart)
        naive    == strptime(date_str \o <<" ">> \o time_str)
    IN  IF dot = 0 \/ comma = 0 THEN ParseError
        ELSE IF naive = ParseError THEN ParseError
        ELSE localize(naive)

----------------------------------------------------------------------------
(* Documents, URLs and the web                                             *)
(*                                                                         *)
(* A text node is a string; an element's subtree is the sequence of its    *)
(* text nodes in document order.  An anchor is [text, href]; an absent     *)
(* attribute or return value is None.  A URL is [host, path, query]; an    *)
(* href is absolute, root-relative, path-relative, query-only or empty.    *)

None == [none |-> TRUE]

IsNone(x) == "none" \in DOMAIN x

Some(x) == [val |-> x]

\* what requests.get / raise_for_status raise
FetchError == [error |-> "FetchError"]

BASE_URL == [host |-> "roulette.org", path |-> <<"calendar", "">>, query |-> ""]

\* urllib.parse.urljoin(base, href)
urljoin(base, href) ==
    CASE href.kind = "abs"   -> href.url
      [] href.kind = "root"  -> [host |-> base.host, path |-> href.path, query |-> href.query]
      [] href.kind = "rel"   -> [host |-> base.host,
                                 path |-> SubSeq(base.path, 1, Len(base.path) - 1) \o href.path,
                                 query |-> href.query]
      [] href.kind = "query" -> [base EXCEPT !.query = href.query]
      [] href.kind = "empty" -> base

\* the truth value of tag.get("href"): a missing or an empty attribute is falsy
HrefTruthy(href) == ~IsNone(href) /\ href.kind # "empty"

NextPagePattern == <<"n", "e", "x", "t", " ", "p", "a", "g", "e">>

\* soup.find("a", string=re.compile(r"Next page", re.I)): the first anchor in
\* document order whose string the pattern is found in, else None
FindNextLink(soup) ==
    LET hits == {i \in DOMAIN soup.anchors : ContainsFolded(soup.anchors[i].text, NextPagePattern)}
    IN  IF hits = {} THEN None
        ELSE soup.anchors[CHOOSE i \in hits : \A j \in hits : i <= j]

\* normalize_texts(node)
NonEmpty(s) == s # <<>>

normalize_texts(node) == SelectSeq([i \in DOMAIN node |-> strip(node[i])], NonEmpty)

TicketsWord == <<"t", "i", "c", "k", "e", "t", "s">>

\* variant: the marker index is overwritten by every later "Tickets" line
RECURSIVE ScanTexts_last_marker(_, _, _, _)
ScanTexts_last_marker(texts, i, date_line, tickets_idx) ==
    IF i > Len(texts) THEN [date_line |-> date_line, tickets_idx |-> tickets_idx]
    ELSE ScanTexts_last_marker(texts, i + 1,
                   IF DATE_LINE_RE(texts[i]) THEN Some(texts[i]) ELSE date_line,
                   IF startswith(lower(texts[i]), TicketsWord) THEN i ELSE tickets_idx)

\* variant: the first date line is kept
RECURSIVE ScanTexts_first_date(_, _, _, _)
ScanTexts_first_date(texts, i, date_line, tickets_idx) ==
    IF i > Len(texts) THEN [date_line |-> date_line, tickets_idx |-> tickets_idx]
    ELSE ScanTexts_first_date(texts, i + 1,
                   IF IsNone(date_line) /\ DATE_LINE_RE(texts[i]) THEN Some(texts[i]) ELSE date_line,
                   IF tickets_idx = 0 /\ startswith(lower(texts[i]), TicketsWord)
                   THEN i ELSE tickets_idx)

\* the scan of extract_listing_fields (for i, t in enumerate(texts)) started
\* at index i with the loop's two variables; tickets_idx is 1-based, 0 = None
RECURSIVE ScanTexts(_, _, _, _)
ScanTexts(texts, i, date_line, tickets_idx) ==
    IF i > Len(texts) THEN [date_line |-> date_line, tickets_idx |-> tickets_idx]
    ELSE ScanTexts(texts, i + 1,
                   IF DATE_LINE_RE(texts[i]) THEN Some(texts[i]) ELSE date_line,
                   IF tickets_idx = 0 /\ startswith(lower(texts[i]), TicketsWord)
                   THEN i ELSE tickets_idx)

\* h2.find("a", href=True): the first anchor of the heading that has an href
\* attribute (an empty one included), else None
FindAnchor(h2) ==
    LET hits == {i \in DOMAIN h2.anchors : ~IsNone(h2.anchors[i].href)}
    IN  IF hits = {} THEN None
        ELSE h2.anchors[CHOOSE i \in hits : \A j \in hits : i <= j]

\* extract_listing_fields(card, base_url) for a card that is an <h2>; h2.root
\* holds the text nodes under h2.parent
extract_listing_fields(h2, base_url) ==
    LET a     == FindAnchor(h2)
        texts == normalize_texts(h2.root)
        scan  == ScanTexts(texts, 1, None, 0)
    IN  IF IsNone(a) THEN None
        ELSE [title        |-> strip(a.text),
              date_line    |-> scan.date_line,
              url          |-> urljoin(base_url, a.href),
              listing_desc |-> IF scan.tickets_idx # 0
                               THEN join(NL, SubSeq(texts, scan.tickets_idx, Len(texts)))
                               ELSE <<>>]

----------------------------------------------------------------------------
(* Detail-page description                                                 *)

Selectors == <<"article", "div.entry-content", "div.content", "main", "div#content">>

MIN_BODY_LEN == 120

\* s.select(sel): the nodes of the page the selector matches, in document order
SelectBy(page, sel) ==
    LET Matches(n) == sel \in n.sels
    IN  SelectSeq(page.nodes, Matches)

\* bodies kept by the two nested loops, for the selectors from index k on
RECURSIVE Candidates(_, _)
Candidates(page, k) ==
    IF k > Len(Selectors) THEN <<>>
    ELSE LET found  == SelectBy(page, Selectors[k])
             bodies == [i \in DOMAIN found |-> strip(join(NL, normalize_texts(found[i].texts)))]
             Long(b) == Len(b) > MIN_BODY_LEN
         IN  SelectSeq(bodies, Long) \o Candidates(page, k + 1)

\* variant: an unstable sort, a later item goes before equally long ones
RECURSIVE SortByLenDesc_unstable(_)
SortByLenDesc_unstable(xs) ==
    IF xs = <<>> THEN <<>>
    ELSE LET rest == SortByLenDesc_unstable(SubSeq(xs, 1, Len(xs) - 1))
             x    == xs[Len(xs)]
             k    == Cardinality({i \in DOMAIN rest : Len(rest[i]) > Len(x)})
         IN  SubSeq(rest, 1, k) \o <<x>> \o SubSeq(rest, k + 1, Len(rest))

\* list.sort(key=len, reverse=True): stable, so equally long items keep their order
RECURSIVE SortByLenDesc(_)
SortByLenDesc(xs) ==
    IF xs = <<>> THEN <<>>
    ELSE LET rest == SortByLenDesc(SubSeq(xs, 1, Len(xs) - 1))
             x    == xs[Len(xs)]
             k    == Cardinality({i \in DOMAIN rest : Len(rest[i]) >= Len(x)})
         IN  SubSeq(rest, 1, k) \o <<x>> \o SubSeq(rest, k + 1, Len(rest))

\* the outcome of a call: a returned value, or an exception leaving the call
Returned(v) == [raised |-> FALSE, value |-> v]

Raised == [raised |-> TRUE, value |-> <<>>]

\* variant: no try/except around fetch_page, the failure leaves the function
fetch_detail_description_uncaught(resp) ==
    IF resp = FetchError THEN Raised
    ELSE LET candidates == SortByLenDesc(Candidates(resp, 1))
         IN  IF candidates # <<>> THEN Returned(candidates[1]) ELSE Returned(<<>>)

\* fetch_detail_description(url), given what fetch_page(url) produced
fetch_detail_description(resp) ==
    IF resp = FetchError THEN Returned(<<>>)
    ELSE LET candidates == SortByLenDesc(Candidates(resp, 1))
         IN  IF candidates # <<>> THEN Returned(candidates[1]) ELSE Returned(<<>>)

----------------------------------------------------------------------------
(* build_calendar: one heading of one page                                 *)

LOCATION == "Roulette Intermedium, 509 Atlantic Ave, Brooklyn, NY"

BlankLine == <<"\n", "\n">>

\* variant: the two sides joined by a single newline
assemble_description_one_newline(listing, detail) ==
    LET listing_desc == strip(listing)
        detail_desc  == strip(detail)
        parts == (IF listing_desc # <<>> THEN <<listing_desc>> ELSE <<>>)
                 \o (IF detail_desc # <<>> THEN <<detail_desc>> ELSE <<>>)
    IN  strip(join(NL, parts))

\* lines 141-153: the description joined from the two sides
assemble_description(listing, detail) ==
    LET listing_desc == strip(listing)
        detail_desc  == strip(detail)
        parts == (IF listing_desc # <<>> THEN <<listing_desc>> ELSE <<>>)
                 \o (IF detail_desc # <<>> THEN <<detail_desc>> ELSE <<>>)
    IN  strip(join(BlankLine, parts))

\* lines 155-162: the Event; uid is the fresh uid ics gives every Event,
\* description stays None when the joined text is empty
make_event(item, start, description, uid) ==
    [uid         |-> uid,
     name        |-> item.title,
     begin       |-> start,
     duration    |-> [hours |-> 2],
     location    |-> LOCATION,
     url         |-> item.url,
     description |-> IF description # <<>> THEN Some(description) ELSE None]

\* variant: parse_begin is called outside any try, its exception leaves
build_calendar_step_parse_uncaught(h2, resp, uid) ==
    LET item   == extract_listing_fields(h2, BASE_URL)
        start  == parse_begin(item.date_line.val)
        detail == fetch_detail_description(resp)
        Skip   == [kind |-> "skip", item |-> item, detail |-> None, event |-> None]
    IN  IF IsNone(item) THEN Skip
        ELSE IF IsNone(item.date_line) THEN Skip
        ELSE IF start = ParseError
             THEN [kind |-> "raise", item |-> item, detail |-> None, event |-> None]
        ELSE IF detail.raised
             THEN [kind |-> "raise", item |-> item, detail |-> Some(resp), event |-> None]
        ELSE [kind   |-> "event", item |-> item, detail |-> Some(resp),
              event  |-> make_event(item, start,
                                    assemble_description(item.listing_desc, detail.value),
                                    uid)]

\* variant: a heading whose description comes out empty is dropped
build_calendar_step_drop_empty(h2, resp, uid) ==
    LET item   == extract_listing_fields(h2, BASE_URL)
        start  == parse_begin(item.date_line.val)
        detail == fetch_detail_description(resp)
        Skip   == [kind |-> "skip", item |-> item, detail |-> None, event |-> None]
    IN  IF IsNone(item) THEN Skip
        ELSE IF IsNone(item.date_line) THEN Skip
        ELSE IF start = ParseError THEN Skip
        ELSE IF detail.raised
             THEN [kind |-> "raise", item |-> item, detail |-> Some(resp), event |-> None]
        ELSE IF assemble_description(item.listing_desc, detail.value) = <<>>
             THEN [kind |-> "skip", item |-> item, detail |-> Some(resp), event |-> None]
        ELSE [kind   |-> "event", item |-> item, detail |-> Some(resp),
              event  |-> make_event(item, start,
                                    assemble_description(item.listing_desc, detail.value),
                                    uid)]

\* the body of  for h2 in soup.select("h2")  (lines 132-165) for one heading;
\* resp is what fetch_page answers for the event's detail URL if it is asked.
\* kind: "skip" (continue), "event" (an Event is added), "raise" (an exception
\* leaves build_calendar)
build_calendar_step(h2, resp, uid) ==
    LET item   == extract_listing_fields(h2, BASE_URL)
        start  == parse_begin(item.date_line.val)
        detail == fetch_detail_description(resp)
        Skip   == [kind |-> "skip", item |-> item, detail |-> None, event |-> None]
    IN  IF IsNone(item) THEN Skip
        ELSE IF IsNone(item.date_line) THEN Skip
        ELSE IF start = ParseError THEN Skip
        ELSE IF detail.raised
             THEN [kind |-> "raise", item |-> item, detail |-> Some(resp), event |-> None]
        ELSE [kind   |-> "event", item |-> item, detail |-> Some(resp),
              event  |-> make_event(item, start,
                                    assemble_description(item.listing_desc, detail.value),
                                    uid)]

----------------------------------------------------------------------------
(* The text, cards and pages the model is run on                           *)

T_Date == <<"S", "a", "t", "u", "r", "d", "a", "y", ",", " ", "N", "o", "v", "e", "m", "b", "e", "r", " ", "1", ",", " ", "2", "0", "2", "5", ".", " ", "8", ":", "0", "0", " ", "p", "m">>

T_DateNoSpace == <<"S", "u", "n", "d", "a", "y", ",", " ", "N", "o", "v", "e", "m", "b", "e", "r", " ", "2", ",", " ", "2", "0", "2", "5", ".", " ", "7", ":", "3", "0", "p", "m">>

T_DateMidnight == <<"F", "r", "i", "d", "a", "y", ",", " ", "D", "e", "c", "e", "m", "b", "e", "r", " ", "5", ",", " ", "2", "0", "2", "5", ".", " ", "1", "2", ":", "0", "0", " ", "A", "M">>

T_Tickets == <<"T", "i", "c", "k", "e", "t", "s", " ", "$", "2", "0">>

T_Doors == <<" ", "D", "o", "o", "r", "s", " ", "7", " ">>

T_Blank == <<" ", "\n", " ">>

T_ShowA == <<"S", "h", "o", "w", " ", "A">>

T_ShowB == <<" ", "S", "h", "o", "w", " ", "B", " ">>

T_TicketsUpper == <<" ", "T", "I", "C", "K", "E", "T", "S", " ", "a", "t", " ", "t", "h", "e", " ", "d", "o", "o", "r">>

T_NoTickets == <<"N", "o", " ", "t", "i", "c", "k", "e", "t", "s", " ", "n", "e", "e", "d", "e", "d">>

T_Ticket == <<"t", "i", "c", "k", "e", "t">>

T_NextPage == <<"N", "e", "x", "t", " ", "p", "a", "g", "e">>

T_NextPageUpper == <<"N", "E", "X", "T", " ", "P", "A", "G", "E", " ", ">">>

T_NextPageLower == <<"n", "e", "x", "t", " ", "p", "a", "g", "e">>

T_PreviousPage == <<"P", "r", "e", "v", "i", "o", "u", "s", " ", "p", "a", "g", "e">>

T_Older == <<"O", "l", "d", "e", "r">>

T_About == <<"A", "b", "o", "u", "t">>

\* n copies of character c
Rep(c, n) == [i \in 1..n |-> c]

Anchor(text, href) == [text |-> text, href |-> href]

HrefRoot(path) == [kind |-> "root", path |-> path, query |-> ""]

HrefRel(path) == [kind |-> "rel", path |-> path, query |-> ""]

HrefQuery(q) == [kind |-> "query", query |-> q]

HrefAbs(u) == [kind |-> "abs", url |-> u]

HrefEmpty == [kind |-> "empty"]

\* <h2><a href="/e/1">Show A</a></h2> beside a date line and ticket lines
CardGood ==
    [anchors |-> <<Anchor(T_ShowA, HrefRoot(<<"e", "1">>))>>,
     root    |-> <<T_ShowA, T_Date, T_Tickets, T_Doors>>]

\* a dated card with no "Tickets" line
CardNoTickets ==
    [anchors |-> <<Anchor(T_ShowB, HrefRoot(<<"e", "2">>))>>,
     root    |-> <<T_ShowB, T_Blank, T_DateMidnight>>]

\* a heading without any anchor
CardNoAnchor == [anchors |-> <<>>, root |-> <<T_ShowA, T_Date, T_Tickets>>]

\* a heading whose only anchor has no href attribute
CardNoHref == [anchors |-> <<Anchor(T_ShowA, None)>>, root |-> <<T_ShowA, T_Date, T_Tickets>>]

\* a heading whose anchor has href=""
CardEmptyHref ==
    [anchors |-> <<Anchor(T_ShowA, None), Anchor(T_ShowB, HrefEmpty)>>,
     root    |-> <<T_ShowA, T_ShowB, T_TicketsUpper, T_Date>>]

\* a linked heading with no date line
CardNoDate ==
    [anchors |-> <<Anchor(T_ShowA, HrefRoot(<<"e", "3">>))>>,
     root    |-> <<T_ShowA, T_Tickets>>]

\* a date line the pattern accepts and strptime rejects
CardBadDate ==
    [anchors |-> <<Anchor(T_ShowA, HrefRoot(<<"e", "4">>))>>,
     root    |-> <<T_ShowA, T_DateNoSpace, T_Tickets>>]

\* two date lines, the last one unparsable
CardTwoDatesBadLast ==
    [anchors |-> <<Anchor(T_ShowA, HrefRoot(<<"e", "5">>))>>,
     root    |-> <<T_Date, T_Tickets, T_DateNoSpace>>]

\* two date lines, the last one good
CardTwoDatesGoodLast ==
    [anchors |-> <<Anchor(T_ShowB, HrefRoot(<<"e", "6">>))>>,
     root    |-> <<T_DateNoSpace, T_NoTickets, T_DateMidnight>>]

Page2Url == [host |-> "roulette.org", path |-> <<"calendar", "page", "2", "">>, query |-> ""]

ListingPages == {
    [h2s     |-> <<CardGood, CardNoAnchor>>,
     anchors |-> <<Anchor(T_PreviousPage, HrefRoot(<<"calendar", "">>)),
                   Anchor(T_NextPage, HrefRel(<<"page", "2", "">>))>>],
    [h2s     |-> <<CardNoDate, CardNoTickets>>,
     anchors |-> <<Anchor(T_NextPageUpper, HrefAbs(BASE_URL))>>],
    [h2s     |-> <<CardBadDate>>,
     anchors |-> <<Anchor(T_NextPage, None), Anchor(T_NextPageLower, HrefQuery("p=2"))>>],
    [h2s     |-> <<>>,
     anchors |-> <<Anchor(T_Older, HrefRel(<<"page", "2", "">>))>>],
    [h2s     |-> <<CardTwoDatesBadLast, CardTwoDatesGoodLast>>,
     anchors |-> <<Anchor(T_NextPage, HrefEmpty)>>],
    [h2s     |-> <<CardNoHref, CardEmptyHref>>,
     anchors |-> <<Anchor(T_NextPageLower, HrefQuery("p=2"))>>] }

\* detail pages: one whose only container is too short, one with a long body
DetailShort == [nodes |-> <<[sels |-> {"article"}, texts |-> <<T_About>>]>>]

DetailLong == [nodes |-> <<[sels |-> {"main"}, texts |-> <<T_About, Rep("x", MIN_BODY_LEN)>>]>>]

DetailResponses == {FetchError, DetailShort, DetailLong}

StartUrls == {BASE_URL, Page2Url}

\* largest page cap the walker is run with
MaxCap == 3

----------------------------------------------------------------------------
(* The run: main -> build_calendar -> iter_upcoming_pages                  *)

VARIABLES
    pc,         \* where the run is: "fetch", "cards", "write", "done", "crashed"
    max_pages,  \* iter_upcoming_pages' page cap
    url,        \* iter_upcoming_pages: url
    iter,       \* iter_upcoming_pages: completed iterations of the for loop
    soup,       \* the document build_calendar is working on
    h2idx,      \* build_calendar: index of the next heading of soup
    cal,        \* cal.events
    total,      \* build_calendar: total
    file,       \* OUTPUT_FILE: None until written, then the events serialized
    exit_code,  \* the process' exit status, None while running
    fetched,    \* history: the listing URLs fetch_page was asked for
    yielded,    \* history: the documents the walker yielded
    last,       \* history: the outcome of the last heading processed
    arg,        \* function harness: the input
    ret         \* function harness: the result, None before the call

vars == <<pc, max_pages, url, iter, soup, h2idx, cal, total, file, exit_code,
          fetched, yielded, last, arg, ret>>

runVars == <<max_pages, url, iter, soup, h2idx, cal, total, file, exit_code,
             fetched, yielded, last>>

NoSoup == [h2s |-> <<>>, anchors |-> <<>>]

\* value of "last" before any heading is processed
NoHeading == [kind |-> "none", item |-> None, detail |-> None, event |-> None]

\* variant: one iteration too many
RangeHasNextOffByOne(done, cap) == done <= cap

\* line 30: whether  for _ in range(max_pages)  has an iteration left after
\* done completed ones
RangeHasNext(done, cap) == done < cap

\* main() has called build_calendar(), which has created the calendar and the
\* walker on start_url; nothing is fetched yet
RunInit(start_url, cap) ==
    /\ max_pages = cap
    /\ url = start_url
    /\ iter = 0
    /\ soup = NoSoup
    /\ h2idx = 1
    /\ cal = {}
    /\ total = 0
    /\ file = None
    /\ exit_code = None
    /\ fetched = <<>>
    /\ yielded = <<>>
    /\ last = NoHeading

Init ==
    /\ pc = "fetch"
    /\ \E start_url \in StartUrls, cap \in 0..MaxCap : RunInit(start_url, cap)
    /\ arg = None
    /\ ret = None

\* line 31: fetch_page(url) raises; nothing catches it up to main
FetchListingFails ==
    /\ pc = "fetch"
    /\ RangeHasNext(iter, max_pages)
    /\ fetched' = Append(fetched, url)
    /\ pc' = "crashed"
    /\ exit_code' = Some(1)
    /\ UNCHANGED <<max_pages, url, iter, soup, h2idx, cal, total, file, yielded, last, arg, ret>>

\* lines 31-32: fetch_page(url) answers and the document is yielded
FetchListing ==
    /\ pc = "fetch"
    /\ RangeHasNext(iter, max_pages)
    /\ \E page \in ListingPages :
        /\ soup' = page
        /\ yielded' = Append(yielded, page)
    /\ fetched' = Append(fetched, url)
    /\ h2idx' = 1
    /\ pc' = "cards"
    /\ UNCHANGED <<max_pages, url, iter, cal, total, file, exit_code, last, arg, ret>>

\* line 30: range(max_pages) is exhausted, the walker ends
WalkerExhausted ==
    /\ pc = "fetch"
    /\ ~RangeHasNext(iter, max_pages)
    /\ pc' = "write"
    /\ UNCHANGED <<runVars, arg, ret>>

\* lines 131-165: one heading of the current document
ProcessHeading ==
    /\ pc = "cards"
    /\ h2idx <= Len(soup.h2s)
    /\ \E resp \in DetailResponses :
        \E r \in {build_calendar_step(soup.h2s[h2idx], resp, total + 1)} :
            /\ last' = r
            /\ cal' = IF r.kind = "event" THEN cal \cup {r.event} ELSE cal
            /\ total' = IF r.kind = "event" THEN total + 1 ELSE total
            /\ pc' = IF r.kind = "raise" THEN "crashed" ELSE "cards"
            /\ exit_code' = IF r.kind = "raise" THEN Some(1) ELSE exit_code
            /\ h2idx' = IF r.kind = "raise" THEN h2idx ELSE h2idx + 1
    /\ UNCHANGED <<max_pages, url, iter, soup, file, fetched, yielded, arg, ret>>

\* variant: the next link is resolved against BASE_URL, not the current url
ResumeWalker_from_base ==
    /\ pc = "cards"
    /\ h2idx > Len(soup.h2s)
    /\ LET next_link == FindNextLink(soup)
       IN  IF IsNone(next_link) \/ ~HrefTruthy(next_link.href)
           THEN /\ pc' = "write"
                /\ UNCHANGED <<url, iter>>
           ELSE /\ url' = urljoin(BASE_URL, next_link.href)
                /\ iter' = iter + 1
                /\ pc' = "fetch"
    /\ UNCHANGED <<max_pages, soup, h2idx, cal, total, file, exit_code, fetched, yielded, last, arg, ret>>

\* lines 33-36: the headings are done, the walker resumes after its yield
ResumeWalker ==
    /\ pc = "cards"
    /\ h2idx > Len(soup.h2s)
    /\ LET next_link == FindNextLink(soup)
       IN  IF IsNone(next_link) \/ ~HrefTruthy(next_link.href)
           THEN /\ pc' = "write"
                /\ UNCHANGED <<url, iter>>
           ELSE /\ url' = urljoin(url, next_link.href)
                /\ iter' = iter + 1
                /\ pc' = "fetch"
    /\ UNCHANGED <<max_pages, soup, h2idx, cal, total, file, exit_code, fetched, yielded, last, arg, ret>>

\* lines 167-176: build_calendar returns, main writes the file and returns 0
WriteOutput ==
    /\ pc = "write"
    /\ file' = Some(cal)
    /\ exit_code' = Some(0)
    /\ pc' = "done"
    /\ UNCHANGED <<max_pages, url, iter, soup, h2idx, cal, total, fetched, yielded, last, arg, ret>>

Next ==
    \/ FetchListingFails
    \/ FetchListing
    \/ WalkerExhausted
    \/ ProcessHeading
    \/ ResumeWalker
    \/ WriteOutput

Spec == Init /\ [][Next]_vars

----------------------------------------------------------------------------
(* Function harnesses: Init draws an input, the one action applies the     *)
(* function to it.  The run's variables stay as main() finds them.         *)

RunIdle == RunInit(BASE_URL, 0)

BoundedSeq(S, n) == UNION {[1..k -> S] : k \in 0..n}

UpperChar(c) == IF c \in Range(Lower) THEN Upper[CHOOSE i \in DOMAIN Lower : Lower[i] = c] ELSE c

Capitalize(w) == [i \in DOMAIN w |-> IF i = 1 THEN UpperChar(w[i]) ELSE w[i]]

\* ---- parse_begin -------------------------------------------------------

Weekdays == {<<"S", "a", "t", "u", "r", "d", "a", "y">>, <<"X">>}

\* the twelve month names capitalised, one in lower case, one abbreviated
MonthWords ==
    {Capitalize(MonthNames[i]) : i \in DOMAIN MonthNames} \cup {MonthNames[3], <<"N", "o", "v">>}

DayWords == {<<"1">>, <<"0", "9">>, <<"2", "9">>, <<"3", "0">>, <<"3", "1">>, <<"3", "2">>}

YearWords == {<<"2", "0", "2", "4">>, <<"2", "0", "2", "5">>}

HourWords == {<<"1">>, <<"0", "8">>, <<"1", "2">>, <<"1", "3">>}

MinuteWords == {<<"0", "0">>, <<"5", "9">>, <<"6", "0">>}

\* what stands between the minutes and the meridiem:  \s*  admits nothing
Separators == {<<" ">>, <<" ", " ">>, <<>>}

\* "Weekday, Month Day, Year. H:MM<sep>AM/PM"
DateLine(weekday, month, day, year, hour, minute, sep, mer) ==
    weekday \o <<",", " ">> \o month \o <<" ">> \o day \o <<",", " ">> \o year
        \o <<".", " ">> \o hour \o <<":">> \o minute \o sep \o mer

InitParse ==
    /\ pc = "call"
    /\ RunIdle
    /\ \E weekday \in Weekdays, month \in MonthWords, day \in DayWords, year \in YearWords,
          hour \in HourWords, minute \in MinuteWords, sep \in Separators, mer \in Meridiems :
            arg = [weekday |-> weekday, month |-> month, day |-> day, year |-> year,
                   hour |-> hour, minute |-> minute, sep |-> sep, mer |-> mer,
                   line |-> DateLine(weekday, month, day, year, hour, minute, sep, mer)]
    /\ ret = None

CallParseBegin ==
    /\ pc = "call"
    /\ ret' = [match |-> DATE_LINE_RE(arg.line), begin |-> parse_begin(arg.line)]
    /\ pc' = "returned"
    /\ UNCHANGED <<runVars, arg>>

SpecParse == InitParse /\ [][CallParseBegin]_vars

\* ---- extract_listing_fields --------------------------------------------

\* longest sequence of text nodes a harness card is given
MaxTexts == 3

ExtractTexts ==
    {T_Date, T_DateMidnight, T_DateNoSpace, T_Tickets, T_TicketsUpper, T_NoTickets,
     T_Ticket, T_Blank, T_Doors}

InitExtract ==
    /\ pc = "call"
    /\ RunIdle
    /\ \E root \in BoundedSeq(ExtractTexts, MaxTexts) :
            arg = [anchors |-> <<Anchor(T_ShowA, HrefRoot(<<"e", "1">>))>>, root |-> root]
    /\ ret = None

CallExtractListingFields ==
    /\ pc = "call"
    /\ ret' = extract_listing_fields(arg, BASE_URL)
    /\ pc' = "returned"
    /\ UNCHANGED <<runVars, arg>>

SpecExtract == InitExtract /\ [][CallExtractListingFields]_vars

\* ---- fetch_detail_description ------------------------------------------

\* most containers a harness detail page has
MaxNodes == 3

\* containers whose bodies are 1 below, at and above the threshold; two
\* selectors can match one container, and one container matches none
DetailNodes ==
    {[sels |-> {"article"},
      texts |-> <<Rep("a", MIN_BODY_LEN \div 2), <<" ">>, Rep("a", MIN_BODY_LEN - MIN_BODY_LEN \div 2 - 1)>>],
     [sels |-> {"div#content"}, texts |-> <<Rep("f", MIN_BODY_LEN - 1)>>],
     [sels |-> {"main"}, texts |-> <<Rep("b", MIN_BODY_LEN + 1)>>],
     [sels |-> {"main"}, texts |-> <<Rep("g", MIN_BODY_LEN + 1)>>],
     [sels |-> {"article"}, texts |-> <<Rep("c", MIN_BODY_LEN + 1)>>],
     [sels |-> {"div.entry-content", "div.content"},
      texts |-> <<<<" ">>, Rep("d", MIN_BODY_LEN + 2), <<"\n">>>>],
     [sels |-> {}, texts |-> <<Rep("e", MIN_BODY_LEN + 3)>>]}

InitDetail ==
    /\ pc = "call"
    /\ RunIdle
    /\ \E resp \in {[nodes |-> ns] : ns \in BoundedSeq(DetailNodes, MaxNodes)} \cup {FetchError} :
            arg = resp
    /\ ret = None

CallFetchDetailDescription ==
    /\ pc = "call"
    /\ ret' = fetch_detail_description(arg)
    /\ pc' = "returned"
    /\ UNCHANGED <<runVars, arg>>

SpecDetail == InitDetail /\ [][CallFetchDetailDescription]_vars

\* ---- one heading through build_calendar --------------------------------

CardTexts == {T_Tickets, T_TicketsUpper, T_NoTickets, T_Doors, T_Blank}

\* a detail page whose body carries whitespace at both ends of its text nodes
DetailPadded ==
    [nodes |-> <<[sels |-> {"article"},
                  texts |-> <<<<"\n">>, <<" ">> \o Rep("y", MIN_BODY_LEN) \o <<" ">>, T_Doors>>]>>]

InitCard ==
    /\ pc = "call"
    /\ RunIdle
    /\ \E texts \in BoundedSeq(CardTexts, MaxTexts),
          resp \in {FetchError, DetailShort, DetailLong, DetailPadded} :
            arg = [h2 |-> [anchors |-> <<Anchor(T_ShowA, HrefRoot(<<"e", "1">>))>>,
                           root |-> <<T_ShowA, T_Date>> \o texts],
                   resp |-> resp]
    /\ ret = None

CallBuildCalendarStep ==
    /\ pc = "call"
    /\ ret' = build_calendar_step(arg.h2, arg.resp, 1)
    /\ pc' = "returned"
    /\ UNCHANGED <<runVars, arg>>

SpecCard == InitCard /\ [][CallBuildCalendarStep]_vars

----------------------------------------------------------------------------
(* Properties                                                              *)

MinOf(S) == CHOOSE x \in S : \A y \in S : x <= y

MaxOf(S) == CHOOSE x \in S : \A y \in S : y <= x

\* indices of the anchors of a page whose text contains "next page", any case
NextMatches(page) ==
    {i \in DOMAIN page.anchors : ContainsFolded(page.anchors[i].text, NextPagePattern)}

\* the first "Next page" anchor of the page has a non-empty href
FirstNextFollowable(page) ==
    NextMatches(page) # {} /\ HrefTruthy(page.anchors[MinOf(NextMatches(page))].href)

\* some "Next page" anchor of the page has a non-empty href
SomeNextFollowable(page) ==
    \E i \in NextMatches(page) : HrefTruthy(page.anchors[i].href)

\* the walk has ended by itself after document n, below the cap
WalkEndedEarly ==
    pc \in {"write", "done"} /\ Len(yielded) >= 1 /\ Len(yielded) < max_pages

\* C1: the walker never yields more than max_pages documents and never asks
\* fetch_page for more than max_pages listing pages, whatever the pages link
\* to; once max_pages documents are yielded no further fetch is issued.
C1_PageCap ==
    /\ Len(fetched) <= max_pages
    /\ Len(yielded) <= Len(fetched)
    /\ Len(yielded) = max_pages => ~(ENABLED FetchListing) /\ ~(ENABLED FetchListingFails)

\* C1 witness: a finished run that yielded exactly max_pages >= 2 documents,
\* whose last document still has a followable next link, and that fetched one
\* URL twice (a cycle).
C1_Witness ==
    /\ pc = "done"
    /\ max_pages >= 2
    /\ Len(yielded) = max_pages
    /\ FirstNextFollowable(yielded[Len(yielded)])
    /\ \E i, j \in DOMAIN fetched : i < j /\ fetched[i] = fetched[j]

\* C2 as stated: the run crashes only when the fetch of the first listing
\* page fails.
C2_CrashOnlyOnFirstPage == pc = "crashed" => Len(fetched) = 1

\* C2 amended: the run crashes exactly when the fetch of a listing page fails,
\* the first or a later one, and then nothing is written; every other error
\* (detail fetch failure, heading without anchor, no date line, unparsable
\* date line) lets the run go on to write the events built and return 0.
C2_CrashOnlyOnListingFetch ==
    /\ pc = "crashed" =>
        /\ Len(fetched) = Len(yielded) + 1
        /\ file = None
        /\ exit_code = Some(1)
    /\ pc = "done" =>
        /\ Len(fetched) = Len(yielded)
        /\ file = Some(cal)
        /\ exit_code = Some(0)
    /\ pc \notin {"crashed", "done"} => file = None /\ exit_code = None
    \* the run is never stuck short of "done" or "crashed"
    /\ pc = "fetch" => ENABLED FetchListing \/ ENABLED WalkerExhausted
    /\ pc = "cards" => h2idx <= Len(soup.h2s) \/ ENABLED ResumeWalker
    /\ pc = "write" => ENABLED WriteOutput

\* C2 witness: the fetch of a later listing page has failed after a detail
\* fetch failure was tolerated; the events built are not written.
C2_Witness ==
    /\ pc = "crashed"
    /\ Len(fetched) >= 2
    /\ last.kind = "event"
    /\ last.detail = Some(FetchError)
    /\ cal # {}
    /\ file = None

\* C3: whenever a heading is processed and the fetch of its detail page
\* fails, nothing is raised: the Event is added with the listing description
\* alone (no description when that is empty) and the loop goes on to the next
\* heading.
C3_DetailFailureAbsorbed ==
    [][(last' # last /\ last'.detail = Some(FetchError)) =>
        /\ last'.kind = "event"
        /\ last'.event \notin cal
        /\ cal' = cal \cup {last'.event}
        /\ total' = total + 1
        /\ last'.event.description =
              (IF last'.item.listing_desc = <<>> THEN None ELSE Some(last'.item.listing_desc))
        /\ pc' = "cards"
        /\ h2idx' = h2idx + 1]_vars

\* C3 witness: an Event without description was added for a heading whose
\* detail fetch failed, and a further heading of the page is still to come.
C3_Witness ==
    /\ last.kind = "event"
    /\ last.detail = Some(FetchError)
    /\ last.event.description = None
    /\ last.event \in cal
    /\ pc = "cards"
    /\ h2idx <= Len(soup.h2s)

\* a heading that has an anchor with an href and whose recognised date line
\* (the last fragment matching the date grammar) parses
Qualifies(h2) ==
    /\ \E i \in DOMAIN h2.anchors : ~IsNone(h2.anchors[i].href)
    /\ LET frags == normalize_texts(h2.root)
           hits  == {i \in DOMAIN frags : DATE_LINE_RE(frags[i])}
       IN  hits # {} /\ parse_begin(frags[MaxOf(hits)]) # ParseError

\* positions <<page, heading>> of the headings processed so far
Processed ==
    UNION {{<<k, i>> : i \in 1..(IF k = Len(yielded) THEN h2idx - 1 ELSE Len(yielded[k].h2s))} :
           k \in DOMAIN yielded}

\* C4: every processed heading adds exactly one Event if it has an anchor with
\* an href and a date line that parses, and none otherwise; so at every point
\* the number of events equals the number of such headings processed, and the
\* written file holds that many.
C4_OneEventPerQualifyingHeading ==
    LET n == Cardinality({pos \in Processed : Qualifies(yielded[pos[1]].h2s[pos[2]])})
    IN  /\ total = n
        /\ Cardinality(cal) = n
        /\ pc = "done" => Cardinality(file.val) = n

\* C4 witness: a finished run with two events and at least two headings that
\* added none.
C4_Witness ==
    /\ pc = "done"
    /\ total = 2
    /\ Cardinality(Processed) >= 4

\* C5: the description of the Event is the listing text, a blank line and the
\* detail text when both are non-empty, the non-empty one verbatim when one is
\* empty, and is not set when both are empty.
C5_DescriptionJoin ==
    pc = "returned" =>
        LET l == ret.item.listing_desc
            d == fetch_detail_description(arg.resp).value
        IN  /\ ret.kind = "event"
            /\ (l # <<>> /\ d # <<>>) => ret.event.description = Some(l \o <<"\n", "\n">> \o d)
            /\ (l # <<>> /\ d = <<>>) => ret.event.description = Some(l)
            /\ (l = <<>> /\ d # <<>>) => ret.event.description = Some(d)
            /\ (l = <<>> /\ d = <<>>) => ret.event.description = None

\* C5 witness: an Event built from a multi-line listing description and a
\* detail text.
C5_Witness ==
    /\ pc = "returned"
    /\ ret.kind = "event"
    /\ Len(ret.item.listing_desc) > Len(T_Tickets)
    /\ fetch_detail_description(arg.resp).value # <<>>
    /\ ~IsNone(ret.event.description)

\* the fields of a date line are valid: a full month name, a day of that
\* month, an hour 1..12, a minute 00..59, whitespace before the meridiem
ValidDateFields(a) ==
    /\ \E i \in DOMAIN MonthNames : MonthNames[i] = lower(a.month)
    /\ IntOf(a.day) \in 1..DaysIn(IntOf(a.year), CHOOSE i \in DOMAIN MonthNames : MonthNames[i] = lower(a.month))
    /\ IntOf(a.hour) \in 1..12
    /\ IntOf(a.minute) \in 0..59
    /\ a.sep # <<>>
    /\ a.mer \in Meridiems

MarkerHits(frags) == {i \in DOMAIN frags : startswith(lower(frags[i]), TicketsWord)}

\* indices of the fragments that match the date grammar
DateHits(frags) == {i \in DOMAIN frags : DATE_LINE_RE(frags[i])}

\* C7: the listing description is the newline-join of the fragments from the
\* first one that begins with "tickets" (any case) to the last, in order, and
\* the empty string when no fragment begins so.
C7_ListingDescription ==
    pc = "returned" =>
        LET frags == normalize_texts(arg.root)
        IN  ret.listing_desc =
                (IF MarkerHits(frags) = {} THEN <<>>
                 ELSE join(NL, SubSeq(frags, MinOf(MarkerHits(frags)), Len(frags))))

\* C7 witness: two marker fragments, the first one not the first fragment and
\* another fragment after it.
C7_Witness ==
    /\ pc = "returned"
    /\ LET frags == normalize_texts(arg.root)
       IN  /\ Cardinality(MarkerHits(frags)) >= 2
           /\ MinOf(MarkerHits(frags)) > 1
           /\ ret.listing_desc = join(NL, SubSeq(frags, 2, Len(frags)))

\* the nodes of a detail page in the order the selectors meet them
Encounters(page) ==
    {e \in (DOMAIN Selectors) \X (DOMAIN page.nodes) : Selectors[e[1]] \in page.nodes[e[2]].sels}

BodyOf(page, e) == strip(join(NL, normalize_texts(page.nodes[e[2]].texts)))

Earlier(e, f) == e[1] < f[1] \/ (e[1] = f[1] /\ e[2] <= f[2])

\* the longest body of at least minLen characters, the first met among
\* equally long ones; the empty string when there is none
LongestSurvivor(page, minLen) ==
    LET surv == {e \in Encounters(page) : Len(BodyOf(page, e)) >= minLen}
    IN  IF surv = {} THEN <<>>
        ELSE BodyOf(page, CHOOSE e \in surv : \A f \in surv :
                              \/ Len(BodyOf(page, f)) < Len(BodyOf(page, e))
                              \/ (Len(BodyOf(page, f)) = Len(BodyOf(page, e)) /\ Earlier(e, f)))

\* C8 as stated: bodies shorter than 120 characters are discarded, one of
\* exactly 120 survives, and the longest survivor, first met on ties, is
\* returned.
C8_KeepsExactly120 ==
    (pc = "returned" /\ arg # FetchError) =>
        ret = Returned(LongestSurvivor(arg, MIN_BODY_LEN))

\* C8 amended: bodies of 120 characters or fewer are discarded (one of exactly
\* 120 is discarded, one of 121 survives); the longest survivor is returned,
\* the first met in selector order then document order on ties, and the empty
\* string when none survives.
C8_LongestOver120 ==
    (pc = "returned" /\ arg # FetchError) =>
        ret = Returned(LongestSurvivor(arg, MIN_BODY_LEN + 1))

\* C8 witness: a page with a body of exactly 120 characters and two different
\* bodies of 121; the one met first is returned.
C8_Witness ==
    /\ pc = "returned"
    /\ arg # FetchError
    /\ \E e \in Encounters(arg) : Len(BodyOf(arg, e)) = MIN_BODY_LEN
    /\ \E e, f \in Encounters(arg) :
        /\ e # f /\ Earlier(e, f)
        /\ Len(BodyOf(arg, e)) = MIN_BODY_LEN + 1
        /\ Len(BodyOf(arg, f)) = MIN_BODY_LEN + 1
        /\ BodyOf(arg, e) # BodyOf(arg, f)
        /\ e[2] > f[2]
        /\ ret.value = BodyOf(arg, e)

\* C9 as stated: the walk goes on from document k < max_pages whenever the
\* document contains a "Next page" anchor with a non-empty href.
C9_AnyNextAnchor ==
    WalkEndedEarly => ~SomeNextFollowable(yielded[Len(yielded)])

\* C9 amended: page k+1 is fetched if and only if the first anchor of page k
\* whose text matches "Next page" has a non-empty href; the URL fetched is that
\* href resolved against the URL of page k; and a page is only fetched when
\* every heading of the document before it has been processed.
C9_FirstNextAnchor ==
    /\ \A k \in 1..(Len(fetched) - 1) :
        /\ FirstNextFollowable(yielded[k])
        /\ fetched[k + 1] =
              urljoin(fetched[k], yielded[k].anchors[MinOf(NextMatches(yielded[k]))].href)
    /\ WalkEndedEarly => ~FirstNextFollowable(yielded[Len(yielded)])
    /\ pc = "fetch" => h2idx > Len(soup.h2s)
    /\ pc = "cards" => Len(fetched) = Len(yielded) /\ soup = yielded[Len(yielded)]

\* C9 witness: a third page was fetched at a URL that differs from its link
\* resolved against the start URL.
C9_Witness ==
    /\ Len(fetched) >= 3
    /\ Len(yielded) >= 2
    /\ fetched[3] # urljoin(fetched[1], yielded[2].anchors[MinOf(NextMatches(yielded[2]))].href)

\* C10: the date line reported is the last fragment that matches the date
\* grammar, wherever the "Tickets" marker lies; it is absent, and nothing is
\* raised, when no fragment matches.
C10_LastDateLineWins ==
    pc = "returned" =>
        LET frags == normalize_texts(arg.root)
        IN  /\ ~IsNone(ret)
            /\ ret.date_line =
                (IF DateHits(frags) = {} THEN None ELSE Some(frags[MaxOf(DateHits(frags))]))

\* C10 witness: two different matching fragments with the marker between them.
C10_Witness ==
    /\ pc = "returned"
    /\ LET frags == normalize_texts(arg.root)
       IN  /\ Cardinality(DateHits(frags)) = 2
           /\ frags[MinOf(DateHits(frags))] # frags[MaxOf(DateHits(frags))]
           /\ \E i \in MarkerHits(frags) : MinOf(DateHits(frags)) < i /\ i < MaxOf(DateHits(frags))
           /\ ret.date_line = Some(frags[3])

====
